---- MODULE Spec2Model ----
(***************************************************************************)
(* Task ordering and completion-state handling of the to-do backend:       *)
(* the /api/tasks handlers (create, update, delete), the PostgreSQL        *)
(* session each handler talks through, and the connection pool that hands  *)
(* sessions from one request to the next.                                  *)
(*                                                                         *)
(* One step of a request is one awaited client.query (the points at which  *)
(* another request can run).  Spec runs the requests one at a time,        *)
(* SpecConc lets two of them interleave.  The dashboard's side, the drag   *)
(* loop and the task cache with its optimistic mutations, is in SpecDrag   *)
(* and SpecCache.                                                          *)
(***************************************************************************)
EXTENDS Integers, Sequences, FiniteSets, TLC

\* ------------------------------------------------------------------ bounds
\* Largest order_index a request carries, and the cap on append-to-end.
MaxIndex == 3

\* ------------------------------------------------------------- universes
Users == {"user_001", "user_002"}
\* task_new is the id generateId() hands to a create.
TaskIds == {"task_001", "task_002", "task_003", "task_004", "task_new"}
SeedIds == TaskIds \ {"task_new"}
Conns == {1, 2}
Procs == {"p1", "p2"}
\* Categories of the seed, and cat_404, an id no category has.
CatIds == {"cat_001", "cat_002", "cat_003"}

NULL == "NULL"
SeedTime == "seed"
now == "now"

\* Timestamps of due dates, read against the clock of a listing: 0 is
\* stored NULL, 1 lies before Date.now(), 3 after it.
NoDue == 0
DateNow == 2
DueDates == {NoDue, 1, 3}

\* A row of the tasks table; exists = FALSE stands for "no such row".
NoRow ==
  [exists |-> FALSE, user_id |-> "", is_completed |-> FALSE,
   completed_at |-> NULL, order_index |-> 0, updated_at |-> NULL,
   category_id |-> NULL, due_date_at |-> NoDue, priority |-> "medium"]

\* A row with no category, no due date and the default priority.
TaskRow(u, done, at, idx, upd) ==
  [exists |-> TRUE, user_id |-> u, is_completed |-> done,
   completed_at |-> at, order_index |-> idx, updated_at |-> upd,
   category_id |-> NULL, due_date_at |-> NoDue, priority |-> "medium"]

\* A row of the categories table.
NoCategory == [exists |-> FALSE, user_id |-> ""]
CategoryRow(u) == [exists |-> TRUE, user_id |-> u]

\* Mutations the dashboard has under way, and a task object of its cache:
\* the one a fetch brought, the optimistic one of a mutation, or the one
\* the server answered a mutation with; absent when the cache has none.
Mutations == {"m1", "m2"}
Absent == [id |-> "", from |-> "absent", by |-> ""]
Fetched(t) == [id |-> t, from |-> "fetch", by |-> ""]
NoMutation ==
  [state |-> "idle", kind |-> "", id |-> "",
   previousTasksById |-> [t \in TaskIds |-> Absent]]

\* The dashboard before it has done anything.
NoDashboard ==
  [tasks_by_id |-> [t \in TaskIds |-> Absent],
   fetched_tasks |-> [t \in TaskIds |-> Absent],
   served |-> [t \in TaskIds |-> Absent],
   mutation |-> [m \in Mutations |-> NoMutation],
   newDisplayTasks |-> <<>>, updatedTasksForBackend |-> <<>>,
   settled |-> 0, succeeded |-> TRUE]

VARIABLES
  dashboard, \* the browser's view: task cache, mutations, a drag's PATCHes
  categories, \* the contents of table categories, by id
  tasks,   \* the committed contents of table tasks, by id
  sess,    \* per connection: transaction status and uncommitted row versions
  idle,    \* the pool's idle clients, most recently released last
  req,     \* per request slot: where the handler is and its locals
  started  \* requests begun so far (counted where two requests interleave)

vars == <<dashboard, categories, tasks, sess, idle, req, started>>

\* ------------------------------------------------------ PostgreSQL session
FreshSession == [tx |-> "none", w |-> {}, rows |-> [t \in TaskIds |-> NoRow]]

\* The pair the statement operators transform.
DB == [tasks |-> tasks, sess |-> sess]

\* What a statement run on connection c reads: committed rows overlaid by
\* the connection's own uncommitted versions (READ COMMITTED).
ViewOf(D, c) ==
  [t \in TaskIds |->
     IF D.sess[c].tx = "open" /\ t \in D.sess[c].w
       THEN D.sess[c].rows[t] ELSE D.tasks[t]]

View(c) == ViewOf(DB, c)

\* A BEGIN that opens no transaction: every statement is committed alone.
BeginIgnored(D, c) == D

\* BEGIN: opens a transaction; inside one it only raises a warning.
Begin(D, c) ==
  IF D.sess[c].tx = "none"
    THEN [D EXCEPT !.sess[c].tx = "open"]
    ELSE D

\* COMMIT: publishes the uncommitted versions; a failed transaction is
\* rolled back instead; outside a transaction it only raises a warning.
Rollback(D, c) == [D EXCEPT !.sess[c] = FreshSession]

Commit(D, c) ==
  IF D.sess[c].tx = "open"
    THEN [tasks |-> ViewOf(D, c), sess |-> [D.sess EXCEPT ![c] = FreshSession]]
    ELSE Rollback(D, c)

\* A data-modifying statement that replaces the rows ch by nv[t]:
\* autocommitted outside a transaction, kept uncommitted inside one.
Write(D, c, ch, nv) ==
  IF D.sess[c].tx = "open"
    THEN [D EXCEPT !.sess[c].w = @ \cup ch,
                   !.sess[c].rows =
                      [t \in TaskIds |-> IF t \in ch THEN nv[t] ELSE @[t]]]
    ELSE [D EXCEPT !.tasks =
                      [t \in TaskIds |-> IF t \in ch THEN nv[t] ELSE @[t]]]

\* A statement that raises an error aborts the open transaction.
Fail(D, c) ==
  IF D.sess[c].tx = "open" THEN [D EXCEPT !.sess[c].tx = "failed"] ELSE D

\* Rows another connection has written in a transaction it has not ended:
\* an UPDATE or DELETE of such a row waits for that transaction.
LockedByOthers(D, c) ==
  UNION {D.sess[d].w : d \in {e \in Conns \ {c} : D.sess[e].tx # "none"}}

\* --------------------------------------------------------- request inputs
\* req.body of a PATCH, as updateTaskInputSchema leaves it; has_x = FALSE
\* is "x is undefined".  The plain fields (title, description, due date,
\* priority) are overwritten by the same UPDATE that stamps updated_at and
\* decide nothing else, so updated_at stands for them.
NoFields ==
  [has_is_completed |-> FALSE, is_completed |-> FALSE,
   has_order_index |-> FALSE, order_index |-> 0,
   has_category_id |-> FALSE, category_id |-> NULL,
   has_completed_at |-> FALSE]

\* Bodies that carry is_completed and order_index only.
Bodies ==
  { [NoFields EXCEPT !.has_is_completed = hc, !.is_completed = ic,
                     !.has_order_index = ho, !.order_index = oi] :
      hc \in BOOLEAN, ic \in BOOLEAN,
      ho \in BOOLEAN, oi \in -1..MaxIndex }

\* Absent fields carry one fixed value, so a body is written one way only.
UpdateBodies ==
  { f \in Bodies : /\ (~f.has_is_completed => ~f.is_completed)
                   /\ (~f.has_order_index => f.order_index = 0) }

\* order_index: z.number().int().nonnegative().optional()
updateTaskInputSchema(f) == f.has_order_index => f.order_index >= 0

\* order_index: z.number().int().nonnegative(), not optional
createTaskInputSchema(f) == f.has_order_index /\ f.order_index >= 0

CreateBodies == { f \in UpdateBodies : ~f.has_is_completed }

\* ------------------------------------------------------------ request slot
NoTable == [t \in TaskIds |-> NoRow]

IdleReq ==
  [pc |-> "idle", op |-> "", userId |-> "", task_id |-> "",
   category_id |-> NULL, is_completed |-> "absent", rows |-> <<>>,
   updateFields |-> NoFields, client |-> 0, currentTask |-> NoRow,
   newOrderIndexForIncomplete |-> 0, error |-> "", status |-> 0,
   pre |-> NoTable]

\* -------------------------------------------------------------------- pool
InUse == {req[p].client : p \in {q \in Procs : req[q].pc # "idle"}}
IdleSet == {idle[i] : i \in 1..Len(idle)}
Closed == Conns \ (InUse \cup IdleSet)

\* pool.connect(): the most recently released idle client, else a new one.
CanConnect == idle # <<>> \/ Closed # {}
Connected ==
  IF idle # <<>> THEN idle[Len(idle)]
  ELSE CHOOSE c \in Closed : \A d \in Closed : c <= d
IdleAfterConnect ==
  IF idle # <<>> THEN SubSeq(idle, 1, Len(idle) - 1) ELSE idle

\* ----------------------------------------------------------------- queries
UserTasks(V, u) == {t \in TaskIds : V[t].exists /\ V[t].user_id = u}
ActiveTasks(V, u) == {t \in UserTasks(V, u) : ~V[t].is_completed}

\* SELECT MAX(order_index) ... WHERE user_id = $1 AND is_completed = FALSE
SelectMax(V, u) ==
  LET S == {V[t].order_index : t \in ActiveTasks(V, u)} IN
  IF S = {} THEN [null |-> TRUE, v |-> 0]
  ELSE [null |-> FALSE, v |-> CHOOSE m \in S : \A n \in S : n <= m]

\* JavaScript's  rows[0].max || d : null and 0 are both falsy.
OrElse(m, d) == IF m.null \/ m.v = 0 THEN d ELSE m.v

\* SELECT ... FROM tasks WHERE id = $1 AND user_id = $2
SelectTask(V, id, u) ==
  IF V[id].exists /\ V[id].user_id = u THEN V[id] ELSE NoRow

\* The ownership query without its  user_id = $2  condition.
SelectCategoryOfAnyUser(C, id, u) ==
  id \in CatIds /\ C[id].exists

\* SELECT 1 FROM categories WHERE id = $1 AND user_id = $2  found a row.
SelectCategory(C, id, u) ==
  id \in CatIds /\ C[id].exists /\ C[id].user_id = u

\* The body names a category (null and undefined name none).
CategoryGiven(f) == f.has_category_id /\ f.category_id # NULL

\* A tasks table without its foreign key on category_id.
ForeignKeyUnchecked(C, cat) == TRUE

\* FOREIGN KEY (category_id) REFERENCES categories(id): what a written
\* row's category_id must satisfy for the statement to go through.
ForeignKeyHolds(C, cat) ==
  cat = NULL \/ (cat \in CatIds /\ C[cat].exists)

\* UPDATE tasks SET order_index = order_index + delta WHERE id IN T
ShiftBy(V, T, delta) ==
  [t \in TaskIds |->
     IF t \in T THEN [V[t] EXCEPT !.order_index = @ + delta] ELSE V[t]]

\* ------------------------------------------------- PATCH /api/tasks/:task_id
\* The SET list under construction: parts in push order, each with the
\* placeholder number it was given (0 for a literal), and the next number.
NoParts == [parts |-> <<>>, paramIndex |-> 3]

Push(q, col, val) ==
  [parts |-> Append(q.parts, [col |-> col, param |-> q.paramIndex, val |-> val]),
   paramIndex |-> q.paramIndex + 1]

PushLiteral(q, col, val) ==
  [parts |-> Append(q.parts, [col |-> col, param |-> 0, val |-> val]),
   paramIndex |-> q.paramIndex]

\* The reorder guard without its "is or remains incomplete" condition.
ReorderBranchAnyState(f, cur) ==
  /\ f.has_order_index
  /\ f.order_index # cur.order_index

\* "Task is or remains incomplete" and order_index is given and differs.
ReorderBranch(f, cur) ==
  /\ f.has_order_index
  /\ f.order_index # cur.order_index
  /\ \/ (f.has_is_completed /\ f.is_completed = FALSE)
     \/ (~f.has_is_completed /\ cur.is_completed = FALSE)

UncompleteBranch(f, cur) ==
  f.has_is_completed /\ f.is_completed = FALSE /\ cur.is_completed = TRUE

\* The is_completed handling without its completed_at parts.
CompletionPartsFlagOnly(q, r) ==
  LET f == r.updateFields
      q1 == Push(q, "is_completed", f.is_completed)
  IN
  IF ~f.has_is_completed THEN q
  ELSE IF ~f.is_completed /\ r.currentTask.is_completed
    THEN Push(q1, "order_index", r.newOrderIndexForIncomplete)
  ELSE q1

\* The is_completed handling with the append-to-end taken whenever the
\* body says false, whatever the row says.
CompletionPartsAppendOnFalse(q, r) ==
  LET f == r.updateFields
      q1 == Push(q, "is_completed", f.is_completed)
  IN
  IF ~f.has_is_completed THEN q
  ELSE IF f.is_completed /\ ~r.currentTask.is_completed
    THEN Push(q1, "completed_at", now)
  ELSE IF ~f.is_completed
    THEN Push(PushLiteral(q1, "completed_at", NULL),
              "order_index", r.newOrderIndexForIncomplete)
  ELSE q1

CompletionParts(q, r) ==
  LET f == r.updateFields
      oldIsCompleted == r.currentTask.is_completed
      newIsCompleted == f.is_completed
      q1 == Push(q, "is_completed", newIsCompleted)
  IN
  IF ~f.has_is_completed THEN q
  ELSE IF newIsCompleted /\ ~oldIsCompleted
    THEN Push(q1, "completed_at", now)
  ELSE IF ~newIsCompleted /\ oldIsCompleted
    THEN Push(PushLiteral(q1, "completed_at", NULL),
              "order_index", r.newOrderIndexForIncomplete)
  ELSE IF newIsCompleted /\ oldIsCompleted
    THEN q1
  ELSE PushLiteral(q1, "completed_at", NULL)

queryParts(r) ==
  LET f == r.updateFields
      q2 == CompletionParts(NoParts, r)
      q3 == IF ReorderBranch(f, r.currentTask)
              THEN Push(q2, "order_index", f.order_index) ELSE q2
      q4 == IF f.has_category_id
              THEN Push(q3, "category_id", f.category_id) ELSE q3
  IN Push(q4, "updated_at", now)

\* queryParts.includes(`order_index = $${paramIndex - 1}`)
CommitCheck(q) ==
  \E i \in 1..Len(q.parts) :
     q.parts[i].col = "order_index" /\ q.parts[i].param = q.paramIndex - 1

\* PostgreSQL rejects a SET list that assigns one column twice.
MultipleAssignments(q) ==
  \E i, j \in 1..Len(q.parts) : i < j /\ q.parts[i].col = q.parts[j].col

Assigns(q, col) == \E i \in 1..Len(q.parts) : q.parts[i].col = col
Assigned(q, col) ==
  q.parts[CHOOSE i \in 1..Len(q.parts) : q.parts[i].col = col].val

\* UPDATE tasks SET <parts> WHERE id = $1 AND user_id = $2, on one row.
SetRow(row, q) ==
  [row EXCEPT
   !.updated_at = IF Assigns(q, "updated_at")
                    THEN Assigned(q, "updated_at") ELSE @,
   !.is_completed = IF Assigns(q, "is_completed")
                      THEN Assigned(q, "is_completed") ELSE @,
   !.completed_at = IF Assigns(q, "completed_at")
                      THEN Assigned(q, "completed_at") ELSE @,
   !.order_index = IF Assigns(q, "order_index")
                     THEN Assigned(q, "order_index") ELSE @,
   !.category_id = IF Assigns(q, "category_id")
                     THEN Assigned(q, "category_id") ELSE @]

\* The range UPDATE with its lower bound exclusive.
ReorderTargetsExclusive(V, u, oldIndex, newIndex, id) ==
  IF newIndex < oldIndex
    THEN {t \in ActiveTasks(V, u) \ {id} :
            V[t].order_index > newIndex /\ V[t].order_index < oldIndex}
    ELSE {t \in ActiveTasks(V, u) \ {id} :
            V[t].order_index > oldIndex /\ V[t].order_index <= newIndex}

\* Rows the reorder's range UPDATE touches.
ReorderTargets(V, u, oldIndex, newIndex, id) ==
  IF newIndex < oldIndex
    THEN {t \in ActiveTasks(V, u) \ {id} :
            V[t].order_index >= newIndex /\ V[t].order_index < oldIndex}
    ELSE {t \in ActiveTasks(V, u) \ {id} :
            V[t].order_index > oldIndex /\ V[t].order_index <= newIndex}

ReorderDelta(oldIndex, newIndex) == IF newIndex < oldIndex THEN 1 ELSE -1

\* Where the handler goes once the completion part of the SET list is built.
AfterCompletion(r) ==
  IF ReorderBranch(r.updateFields, r.currentTask)
    THEN IF r.updateFields.order_index < 0
           THEN [r EXCEPT !.pc = "done", !.status = 400]
           ELSE [r EXCEPT !.pc = "selectMaxReorder"]
    ELSE [r EXCEPT !.pc = "update"]

\* Where the handler goes once the row and the category are checked.
AfterCurrent(r) ==
  IF UncompleteBranch(r.updateFields, r.currentTask)
    THEN [r EXCEPT !.pc = "selectMaxUncomplete"]
    ELSE AfterCompletion(r)

\* The user's largest active index stays within the modelled range.
WithinCap(V, u, f) ==
  (f.has_is_completed /\ ~f.is_completed) =>
     \A t \in ActiveTasks(V, u) : V[t].order_index < MaxIndex

StartPatch(p, u, id, f) ==
  /\ req[p].pc = "idle"
  /\ CanConnect
  /\ WithinCap(View(Connected), u, f)
  /\ idle' = IdleAfterConnect
  /\ req' = [req EXCEPT ![p] =
       [IdleReq EXCEPT !.op = "patch", !.userId = u, !.task_id = id,
                       !.updateFields = f, !.client = Connected,
                       !.pre = View(Connected),
                       !.pc = IF updateTaskInputSchema(f)
                                THEN "selectCurrent" ELSE "catch",
                       !.error = IF updateTaskInputSchema(f)
                                   THEN "" ELSE "ZodError"]]
  /\ started' = started + 1
  /\ UNCHANGED <<dashboard, categories, tasks, sess>>

PatchSelectCurrent(p) ==
  LET r == req[p]
      currentTask == SelectTask(View(r.client), r.task_id, r.userId)
      r1 == [r EXCEPT !.currentTask = currentTask]
  IN
  /\ r.pc = "selectCurrent" /\ r.op = "patch"
  /\ req' = [req EXCEPT ![p] =
       IF ~currentTask.exists
         THEN [r EXCEPT !.pc = "done", !.status = 404]
       ELSE IF CategoryGiven(r.updateFields)
         THEN [r1 EXCEPT !.pc = "patchCategory"]
       ELSE AfterCurrent(r1)]
  /\ UNCHANGED <<dashboard, categories, tasks, sess, idle, started>>

\* The ownership query for a category_id that is given and not null.
PatchCategoryCheck(p) ==
  LET r == req[p] IN
  /\ r.pc = "patchCategory"
  /\ req' = [req EXCEPT ![p] =
       IF SelectCategory(categories, r.updateFields.category_id, r.userId)
         THEN AfterCurrent(r)
         ELSE [r EXCEPT !.pc = "done", !.status = 400]]
  /\ UNCHANGED <<dashboard, categories, tasks, sess, idle, started>>

PatchSelectMaxUncomplete(p) ==
  LET r == req[p]
      maxOrderResult == SelectMax(View(r.client), r.userId)
      newOrderIndexForIncomplete == OrElse(maxOrderResult, -1) + 1
  IN
  /\ r.pc = "selectMaxUncomplete"
  /\ req' = [req EXCEPT ![p] =
       AfterCompletion(
         [r EXCEPT !.newOrderIndexForIncomplete = newOrderIndexForIncomplete])]
  /\ UNCHANGED <<dashboard, categories, tasks, sess, idle, started>>

PatchSelectMaxReorder(p) ==
  LET r == req[p]
      newIndex == r.updateFields.order_index
      maxOrderResult == SelectMax(View(r.client), r.userId)
      maxOrderIndex == OrElse(maxOrderResult, -1)
  IN
  /\ r.pc = "selectMaxReorder"
  /\ req' = [req EXCEPT ![p] =
       IF newIndex > maxOrderIndex + 1
         THEN [r EXCEPT !.pc = "done", !.status = 400]
         ELSE [r EXCEPT !.pc = "shift"]]
  /\ UNCHANGED <<dashboard, categories, tasks, sess, idle, started>>

\* BEGIN, then the range UPDATE.
PatchShift(p) ==
  LET r == req[p]
      c == r.client
      oldIndex == r.currentTask.order_index
      newIndex == r.updateFields.order_index
      D1 == Begin(DB, c)
      V == ViewOf(D1, c)
      T == ReorderTargets(V, r.userId, oldIndex, newIndex, r.task_id)
      D2 == Write(D1, c, T, ShiftBy(V, T, ReorderDelta(oldIndex, newIndex)))
  IN
  /\ r.pc = "shift"
  /\ T \cap LockedByOthers(DB, c) = {}
  /\ tasks' = D2.tasks
  /\ sess' = D2.sess
  /\ req' = [req EXCEPT ![p].pc = "update"]
  /\ UNCHANGED <<dashboard, categories, idle, started>>

\* The row UPDATE, the rowless ROLLBACK, the conditional COMMIT, the answer.
PatchUpdate(p) ==
  LET r == req[p]
      c == r.client
      q == queryParts(r)
      V == View(c)
      hit == SelectTask(V, r.task_id, r.userId).exists
      T == IF hit THEN {r.task_id} ELSE {}
      D1 == Write(DB, c, T, [V EXCEPT ![r.task_id] = SetRow(@, q)])
      D2 == IF ~hit THEN Rollback(DB, c)
            ELSE IF CommitCheck(q) THEN Commit(D1, c)
            ELSE D1
      D3 == Fail(DB, c)
      written == IF hit /\ Assigns(q, "category_id")
                   THEN Assigned(q, "category_id") ELSE NULL
  IN
  /\ r.pc = "update"
  /\ T \cap LockedByOthers(DB, c) = {}
  /\ IF MultipleAssignments(q) \/ ~ForeignKeyHolds(categories, written)
       THEN /\ tasks' = D3.tasks
            /\ sess' = D3.sess
            /\ req' = [req EXCEPT ![p].pc = "catch", ![p].error = "error"]
       ELSE /\ tasks' = D2.tasks
            /\ sess' = D2.sess
            /\ req' = [req EXCEPT ![p].pc = "done",
                                  ![p].status = IF hit THEN 200 ELSE 404]
  /\ UNCHANGED <<dashboard, categories, idle, started>>

\* catch: ROLLBACK, then 400 for a ZodError and 500 otherwise.
Catch(p) ==
  LET r == req[p]
      D1 == Rollback(DB, r.client)
  IN
  /\ r.pc = "catch"
  /\ tasks' = D1.tasks
  /\ sess' = D1.sess
  /\ req' = [req EXCEPT ![p].pc = "done",
                        ![p].status = IF r.error = "ZodError" THEN 400 ELSE 500]
  /\ UNCHANGED <<dashboard, categories, idle, started>>

\* finally: client.release().  The slot keeps nothing of the request.
Release(p) ==
  /\ req[p].pc = "done"
  /\ idle' = Append(idle, req[p].client)
  /\ req' = [req EXCEPT ![p] = IdleReq]
  /\ UNCHANGED <<dashboard, categories, tasks, sess, started>>

\* ----------------------------------------------------------- POST /api/tasks
\* The INSERT names 12 columns and supplies placeholders $1..$11.
InsertColumns == 12
InsertPlaceholders == 11

StartCreate(p, u, f) ==
  /\ req[p].pc = "idle"
  /\ CanConnect
  /\ ~tasks["task_new"].exists
  /\ idle' = IdleAfterConnect
  /\ req' = [req EXCEPT ![p] =
       [IdleReq EXCEPT !.op = "create", !.userId = u, !.task_id = "task_new",
                       !.updateFields = f, !.client = Connected,
                       !.pre = View(Connected),
                       !.pc = IF ~createTaskInputSchema(f) THEN "catch"
                              ELSE IF CategoryGiven(f) THEN "createCategory"
                              ELSE "createShift",
                       !.error = IF createTaskInputSchema(f)
                                   THEN "" ELSE "ZodError"]]
  /\ started' = started + 1
  /\ UNCHANGED <<dashboard, categories, tasks, sess>>

\* The ownership query for a category_id that is given.
CreateCategoryCheck(p) ==
  LET r == req[p] IN
  /\ r.pc = "createCategory"
  /\ req' = [req EXCEPT ![p] =
       IF SelectCategory(categories, r.updateFields.category_id, r.userId)
         THEN [r EXCEPT !.pc = "createShift"]
         ELSE [r EXCEPT !.pc = "done", !.status = 400]]
  /\ UNCHANGED <<dashboard, categories, tasks, sess, idle, started>>

\* BEGIN, then  order_index + 1  on all of the user's incomplete tasks.
CreateShift(p) ==
  LET r == req[p]
      c == r.client
      D1 == Begin(DB, c)
      V == ViewOf(D1, c)
      T == ActiveTasks(V, r.userId)
      D2 == Write(D1, c, T, ShiftBy(V, T, 1))
  IN
  /\ r.pc = "createShift"
  /\ T \cap LockedByOthers(DB, c) = {}
  /\ tasks' = D2.tasks
  /\ sess' = D2.sess
  /\ req' = [req EXCEPT ![p].pc = "insert"]
  /\ UNCHANGED <<dashboard, categories, idle, started>>

\* The INSERT (a statement whose VALUES list is shorter than its column
\* list is rejected), then COMMIT and the 201 answer.
CreateInsert(p) ==
  LET r == req[p]
      c == r.client
      V == View(c)
      row == [TaskRow(r.userId, FALSE, NULL, 0, now)
                EXCEPT !.category_id = r.updateFields.category_id]
      D1 == Write(DB, c, {r.task_id}, [V EXCEPT ![r.task_id] = row])
      D2 == Commit(D1, c)
      D3 == Fail(DB, c)
  IN
  /\ r.pc = "insert"
  /\ IF /\ InsertPlaceholders = InsertColumns
        /\ ForeignKeyHolds(categories, row.category_id)
       THEN /\ tasks' = D2.tasks
            /\ sess' = D2.sess
            /\ req' = [req EXCEPT ![p].pc = "done", ![p].status = 201]
       ELSE /\ tasks' = D3.tasks
            /\ sess' = D3.sess
            /\ req' = [req EXCEPT ![p].pc = "catch", ![p].error = "error"]
  /\ UNCHANGED <<dashboard, categories, idle, started>>

\* ----------------------------------------------- DELETE /api/tasks/:task_id
StartDelete(p, u, id) ==
  /\ req[p].pc = "idle"
  /\ CanConnect
  /\ idle' = IdleAfterConnect
  /\ req' = [req EXCEPT ![p] =
       [IdleReq EXCEPT !.op = "delete", !.userId = u, !.task_id = id,
                       !.client = Connected, !.pre = View(Connected),
                       !.pc = "deleteSelect"]]
  /\ started' = started + 1
  /\ UNCHANGED <<dashboard, categories, tasks, sess>>

\* BEGIN, the SELECT of the row, and ROLLBACK + 404 when there is none.
DeleteSelect(p) ==
  LET r == req[p]
      c == r.client
      D1 == Begin(DB, c)
      taskToDelete == SelectTask(ViewOf(D1, c), r.task_id, r.userId)
      D2 == IF taskToDelete.exists THEN D1 ELSE Rollback(D1, c)
  IN
  /\ r.pc = "deleteSelect"
  /\ tasks' = D2.tasks
  /\ sess' = D2.sess
  /\ req' = [req EXCEPT ![p] =
       IF taskToDelete.exists
         THEN [r EXCEPT !.currentTask = taskToDelete, !.pc = "delete"]
         ELSE [r EXCEPT !.pc = "done", !.status = 404]]
  /\ UNCHANGED <<dashboard, categories, idle, started>>

\* The DELETE; ROLLBACK + 404 when it removed nothing; COMMIT + 204 when
\* the removed task was completed.
DeleteRow(p) ==
  LET r == req[p]
      c == r.client
      V == View(c)
      hit == SelectTask(V, r.task_id, r.userId).exists
      T == IF hit THEN {r.task_id} ELSE {}
      D1 == Write(DB, c, T, [V EXCEPT ![r.task_id] = NoRow])
      D2 == IF ~hit THEN Rollback(DB, c)
            ELSE IF r.currentTask.is_completed = FALSE THEN D1
            ELSE Commit(D1, c)
  IN
  /\ r.pc = "delete"
  /\ T \cap LockedByOthers(DB, c) = {}
  /\ tasks' = D2.tasks
  /\ sess' = D2.sess
  /\ req' = [req EXCEPT ![p] =
       IF ~hit THEN [r EXCEPT !.pc = "done", !.status = 404]
       ELSE IF r.currentTask.is_completed = FALSE
         THEN [r EXCEPT !.pc = "deleteShift"]
       ELSE [r EXCEPT !.pc = "done", !.status = 204]]
  /\ UNCHANGED <<dashboard, categories, idle, started>>

\* The compaction with its  is_completed = FALSE  condition left out.
DeleteTargetsAnyState(V, u, i) ==
  {t \in UserTasks(V, u) : V[t].order_index > i}

\* The compaction with its  order_index > $2  condition left out.
DeleteTargetsEveryIndex(V, u, i) ==
  ActiveTasks(V, u)

\* Rows the compaction UPDATE touches:
\* user_id = $1 AND is_completed = FALSE AND order_index > $2
DeleteTargets(V, u, i) ==
  {t \in ActiveTasks(V, u) : V[t].order_index > i}

\* order_index - 1  above the removed index, then COMMIT and 204.
DeleteShift(p) ==
  LET r == req[p]
      c == r.client
      V == View(c)
      T == DeleteTargets(V, r.userId, r.currentTask.order_index)
      D1 == Write(DB, c, T, ShiftBy(V, T, -1))
      D2 == Commit(D1, c)
  IN
  /\ r.pc = "deleteShift"
  /\ T \cap LockedByOthers(DB, c) = {}
  /\ tasks' = D2.tasks
  /\ sess' = D2.sess
  /\ req' = [req EXCEPT ![p].pc = "done", ![p].status = 204]
  /\ UNCHANGED <<dashboard, categories, idle, started>>

\* ------------------------------------------------------------ GET /api/tasks
\* req.query.is_completed as the query string carries it: a string, or
\* absent.  is_completed: z.boolean().optional() admits no string.
QueryValues == {"absent", "true", "false"}
searchTasksInputSchema(v) == v = "absent"

Priorities == {"high", "medium", "low"}

\* CASE WHEN due_date_at IS NOT NULL AND due_date_at < ${Date.now()}
\*           AND is_completed = FALSE THEN 0 ELSE 1 END
OverdueFlag(row) ==
  IF row.due_date_at # NoDue /\ row.due_date_at < DateNow /\ ~row.is_completed
    THEN 0 ELSE 1

\* due_date_at ASC NULLS LAST
DueBefore(a, b) == a # NoDue /\ (b = NoDue \/ a < b)

\* CASE priority WHEN 'high' THEN 0 WHEN 'medium' THEN 1 WHEN 'low' THEN 2
\* ELSE 3 END
PriorityRank(pr) ==
  IF pr = "high" THEN 0 ELSE IF pr = "medium" THEN 1
  ELSE IF pr = "low" THEN 2 ELSE 3

\* Row a sorts strictly before row b under the four ORDER BY terms.
SortsBefore(a, b) ==
  \/ OverdueFlag(a) < OverdueFlag(b)
  \/ /\ OverdueFlag(a) = OverdueFlag(b)
     /\ \/ DueBefore(a.due_date_at, b.due_date_at)
        \/ /\ a.due_date_at = b.due_date_at
           /\ \/ PriorityRank(a.priority) < PriorityRank(b.priority)
              \/ /\ PriorityRank(a.priority) = PriorityRank(b.priority)
                 /\ a.order_index < b.order_index

\* The orders in which the SELECT may return the rows T: rows that tie on
\* every term come in any order.
OrderBy(V, T) ==
  {s \in [1..Cardinality(T) -> T] :
     /\ \A i, j \in 1..Cardinality(T) : i # j => s[i] # s[j]
     /\ \A i, j \in 1..Cardinality(T) :
          i < j => ~SortsBefore(V[s[j]], V[s[i]])}

\* connect and parse; a ZodError is answered 400 without a statement.
StartList(p, u, v) ==
  /\ req[p].pc = "idle"
  /\ CanConnect
  /\ idle' = IdleAfterConnect
  /\ req' = [req EXCEPT ![p] =
       [IdleReq EXCEPT !.op = "list", !.userId = u, !.is_completed = v,
                       !.client = Connected, !.pre = View(Connected),
                       !.pc = IF searchTasksInputSchema(v)
                                THEN "listSelect" ELSE "done",
                       !.status = IF searchTasksInputSchema(v) THEN 0 ELSE 400]]
  /\ started' = started + 1
  /\ UNCHANGED <<dashboard, categories, tasks, sess>>

\* The SELECT with  user_id = $1 AND is_completed = FALSE  and the four
\* ORDER BY terms (LIMIT 10 holds every row of the model), and the answer.
ListSelect(p) ==
  LET r == req[p]
      V == View(r.client)
  IN
  /\ r.pc = "listSelect"
  /\ \E s \in OrderBy(V, ActiveTasks(V, r.userId)) :
       req' = [req EXCEPT ![p].rows = s, ![p].pc = "done", ![p].status = 200]
  /\ UNCHANGED <<dashboard, categories, tasks, sess, idle, started>>

\* ------------------------------------- DELETE /api/categories/:category_id
StartDeleteCategory(p, u, cat) ==
  /\ req[p].pc = "idle"
  /\ CanConnect
  /\ idle' = IdleAfterConnect
  /\ req' = [req EXCEPT ![p] =
       [IdleReq EXCEPT !.op = "deleteCategory", !.userId = u,
                       !.category_id = cat,
                       !.client = Connected, !.pre = View(Connected),
                       !.pc = "deleteCategory"]]
  /\ started' = started + 1
  /\ UNCHANGED <<dashboard, categories, tasks, sess>>

\* The foreign key with ON DELETE CASCADE in place of SET NULL.
OnDeleteCascade(V, cat) ==
  [t \in TaskIds |->
     IF V[t].exists /\ V[t].category_id = cat THEN NoRow ELSE V[t]]

\* FOREIGN KEY (category_id) REFERENCES categories(id) ON DELETE SET NULL:
\* what the removal of category cat does to the tasks table.
OnDeleteSetNull(V, cat) ==
  [t \in TaskIds |->
     IF V[t].exists /\ V[t].category_id = cat
       THEN [V[t] EXCEPT !.category_id = NULL] ELSE V[t]]

\* DELETE FROM categories WHERE id = $1 AND user_id = $2, sent on a client
\* that holds no transaction, and what ON DELETE SET NULL does to the
\* tasks that name the category.  The statement waits for a transaction
\* that has written such a task or a row naming the category.
DeleteCategoryRow(p) ==
  LET r == req[p]
      c == r.client
      cat == r.category_id
      hit == SelectCategory(categories, cat, r.userId)
      T == IF hit THEN {t \in TaskIds : tasks[t].exists
                                        /\ tasks[t].category_id = cat}
           ELSE {}
  IN
  /\ r.pc = "deleteCategory"
  /\ sess[c].tx = "none"
  /\ T \cap LockedByOthers(DB, c) = {}
  /\ hit => \A d \in Conns \ {c} :
              sess[d].tx # "none" =>
                \A t \in sess[d].w : sess[d].rows[t].category_id # cat
  /\ categories' = IF hit THEN [categories EXCEPT ![cat] = NoCategory]
                   ELSE categories
  /\ tasks' = IF hit THEN OnDeleteSetNull(tasks, cat) ELSE tasks
  /\ req' = [req EXCEPT ![p].pc = "done",
                        ![p].status = IF hit THEN 204 ELSE 404]
  /\ UNCHANGED <<dashboard, sess, idle, started>>

\* ------------------------------------------------------------- environment
\* The pool closes a client that stayed idle (idleTimeoutMillis); the
\* server ends the session and with it any transaction left open.  Closing
\* a session that holds no transaction changes nothing a request can see,
\* so only the other case is a step.
IdleTimeout(c) ==
  /\ c \in IdleSet
  /\ sess[c].tx # "none"
  /\ idle' = SelectSeq(idle, LAMBDA d : d # c)
  /\ sess' = [sess EXCEPT ![c] = FreshSession]
  /\ UNCHANGED <<dashboard, categories, tasks, req, started>>

\* ------------------------------------------------------------------- start
\* Rows as the seed INSERTs lay them out: every user's incomplete tasks
\* hold 0..N-1, a completed task holds the index of its own slot.
SeedOwner ==
  [t \in SeedIds |-> IF t = "task_004" THEN "user_002" ELSE "user_001"]
SeedRank ==
  [t \in SeedIds |->
     IF t = "task_001" THEN 0 ELSE IF t = "task_002" THEN 1
     ELSE IF t = "task_003" THEN 2 ELSE 0]

SeedCategory ==
  [t \in SeedIds |->
     IF t = "task_002" THEN "cat_002"
     ELSE IF t = "task_004" THEN "cat_003" ELSE "cat_001"]

SeedCategories ==
  [c \in CatIds |->
     CategoryRow(IF c = "cat_003" THEN "user_002" ELSE "user_001")]

SeedTable(completed) ==
  [t \in TaskIds |->
     IF t \notin SeedIds THEN NoRow
     ELSE [(IF t \in completed
              THEN TaskRow(SeedOwner[t], TRUE, SeedTime, SeedRank[t], SeedTime)
              ELSE TaskRow(SeedOwner[t], FALSE, NULL,
                     Cardinality({s \in SeedIds \ completed :
                        SeedOwner[s] = SeedOwner[t] /\ SeedRank[s] < SeedRank[t]}),
                     SeedTime))
           EXCEPT !.category_id = SeedCategory[t]]]

SeedTables ==
  { SeedTable(completed) :
      completed \in SUBSET {t \in SeedIds : SeedOwner[t] = "user_001"} }

Init ==
  /\ dashboard = NoDashboard
  /\ categories = SeedCategories
  /\ tasks \in SeedTables
  /\ sess = [c \in Conns |-> FreshSession]
  /\ idle = <<>>
  /\ req = [p \in Procs |-> IdleReq]
  /\ started = 0

\* ------------------------------------------------------------- next states
Handle(p) ==
  \/ PatchSelectCurrent(p)
  \/ PatchSelectMaxUncomplete(p)
  \/ PatchSelectMaxReorder(p)
  \/ PatchShift(p)
  \/ PatchUpdate(p)
  \/ CreateShift(p)
  \/ CreateInsert(p)
  \/ DeleteSelect(p)
  \/ DeleteRow(p)
  \/ DeleteShift(p)
  \/ Catch(p)
  \/ Release(p)

\* One request at a time, MaxRequests requests in all, from any user, on
\* any task id, with any body.
MaxRequests == 2

RequestPatch ==
  \E u \in Users, id \in TaskIds, f \in UpdateBodies :
     started < MaxRequests /\ StartPatch("p1", u, id, f)

RequestCreate ==
  \E u \in Users, f \in CreateBodies :
     started < MaxRequests /\ StartCreate("p1", u, f)

RequestDelete ==
  \E u \in Users, id \in TaskIds :
     started < MaxRequests /\ StartDelete("p1", u, id)

Next ==
  \/ RequestPatch
  \/ RequestCreate
  \/ RequestDelete
  \/ Handle("p1")
  \/ \E c \in Conns : IdleTimeout(c)

Spec == Init /\ [][Next]_vars

\* Two requests of one user whose statements interleave, one per slot, each
\* a single operation on one of the user's tasks.  The slots are alike, so
\* p1 is the one that arrives first.
ConcUser == "user_001"
ConcTasks == {t \in SeedIds : SeedOwner[t] = ConcUser}
ConcBodies ==
  {f \in UpdateBodies : /\ updateTaskInputSchema(f)
                        /\ f.has_is_completed # f.has_order_index}
Arrives(p) == started < Cardinality(Procs) /\ (p = "p1" \/ started > 0)

ConcurrentPatch ==
  \E p \in Procs, id \in ConcTasks, f \in ConcBodies :
     Arrives(p) /\ StartPatch(p, ConcUser, id, f)

ConcurrentCreate ==
  \E p \in Procs, f \in {g \in CreateBodies : createTaskInputSchema(g)} :
     Arrives(p) /\ StartCreate(p, ConcUser, f)

ConcurrentDelete ==
  \E p \in Procs, id \in ConcTasks :
     Arrives(p) /\ StartDelete(p, ConcUser, id)

NextConc ==
  \/ ConcurrentPatch
  \/ ConcurrentCreate
  \/ ConcurrentDelete
  \/ \E p \in Procs : Handle(p)
  \/ \E c \in Conns : IdleTimeout(c)

SpecConc == Init /\ [][NextConc]_vars

\* Requests about the fields that are no order: slot p1 runs creates and
\* PATCHes of one user that carry is_completed, completed_at and
\* category_id, slot p2 deletes categories meanwhile; FieldRequests
\* requests in all.
FieldRequests == 2
CategoryChoices == {NULL, "cat_001", "cat_003", "cat_404"}

FieldBodies ==
  { [NoFields EXCEPT !.has_is_completed = hc, !.is_completed = ic,
                     !.has_completed_at = ha,
                     !.has_category_id = hg, !.category_id = g] :
      hc \in BOOLEAN, ic \in BOOLEAN, ha \in BOOLEAN,
      hg \in BOOLEAN, g \in CategoryChoices }

UpdateFieldBodies ==
  { f \in FieldBodies : /\ (~f.has_is_completed => ~f.is_completed)
                        /\ (~f.has_category_id => f.category_id = NULL) }

CreateFieldBodies ==
  { [f EXCEPT !.has_order_index = TRUE] :
      f \in {g \in UpdateFieldBodies :
                ~g.has_is_completed /\ ~g.has_completed_at} }

FieldsPatch ==
  \E id \in SeedIds, f \in UpdateFieldBodies :
     started < FieldRequests /\ StartPatch("p1", ConcUser, id, f)

FieldsCreate ==
  \E f \in CreateFieldBodies :
     started < FieldRequests /\ StartCreate("p1", ConcUser, f)

FieldsDeleteCategory ==
  \E u \in Users, cat \in CatIds :
     started < FieldRequests /\ StartDeleteCategory("p2", u, cat)

HandleFields(p) ==
  \/ PatchSelectCurrent(p)
  \/ PatchCategoryCheck(p)
  \/ PatchSelectMaxUncomplete(p)
  \/ PatchUpdate(p)
  \/ CreateCategoryCheck(p)
  \/ CreateShift(p)
  \/ CreateInsert(p)
  \/ DeleteCategoryRow(p)
  \/ Catch(p)
  \/ Release(p)

NextFields ==
  \/ FieldsPatch
  \/ FieldsCreate
  \/ FieldsDeleteCategory
  \/ \E p \in Procs : HandleFields(p)

\* The seed with task_002 completed.
InitFields == Init /\ tasks = SeedTable({"task_002"})

SpecFields == InitFields /\ [][NextFields]_vars

\* Listings of one user's incomplete tasks, over every way of giving the
\* tasks due dates and priorities.
ListRequests == 2

ListTables ==
  { [t \in TaskIds |->
       IF t \in ConcTasks
         THEN [SeedTable({})[t] EXCEPT !.due_date_at = d[t],
                                       !.priority = pr[t]]
         ELSE SeedTable({})[t]] :
      d \in [ConcTasks -> DueDates], pr \in [ConcTasks -> {"high", "low"}] }

InitList ==
  /\ dashboard = NoDashboard
  /\ categories = SeedCategories
  /\ tasks \in ListTables
  /\ sess = [c \in Conns |-> FreshSession]
  /\ idle = <<>>
  /\ req = [p \in Procs |-> IdleReq]
  /\ started = 0

RequestList ==
  \E v \in QueryValues :
     started < ListRequests /\ StartList("p1", ConcUser, v)

NextList ==
  \/ RequestList
  \/ ListSelect("p1")
  \/ Release("p1")

SpecList == InitList /\ [][NextList]_vars

\* SessionRequests requests of one user, one after the other, each on the
\* client the one before it gave back to the pool.
SessionRequests == 3

SessionPatch ==
  \E id \in ConcTasks, f \in UpdateBodies :
     started < SessionRequests /\ StartPatch("p1", ConcUser, id, f)

SessionCreate ==
  \E f \in {g \in CreateBodies : g.order_index <= 0} :
     started < SessionRequests /\ StartCreate("p1", ConcUser, f)

SessionDelete ==
  \E id \in ConcTasks :
     started < SessionRequests /\ StartDelete("p1", ConcUser, id)

NextSession ==
  \/ SessionPatch
  \/ SessionCreate
  \/ SessionDelete
  \/ Handle("p1")
  \/ \E c \in Conns : IdleTimeout(c)

SpecSession == Init /\ [][NextSession]_vars

\* Listings of one user in slot p2 while slot p1 runs that user's creates,
\* reorders and deletes, ReadRequests requests in all; the listing holds a
\* pooled client of its own from its connect to its release.
ReadRequests == 3

ReadBodies ==
  {f \in UpdateBodies : /\ f.has_order_index /\ f.order_index >= 0
                        /\ ~f.has_is_completed}

ReadPatch ==
  \E id \in ConcTasks, f \in ReadBodies :
     started < ReadRequests /\ StartPatch("p1", ConcUser, id, f)

ReadCreate ==
  \E f \in {g \in CreateBodies : g.has_order_index /\ g.order_index = 0} :
     started < ReadRequests /\ StartCreate("p1", ConcUser, f)

ReadDelete ==
  \E id \in ConcTasks :
     started < ReadRequests /\ StartDelete("p1", ConcUser, id)

ReadList ==
  started < ReadRequests /\ StartList("p2", ConcUser, "absent")

HandleRead(p) ==
  \/ PatchSelectCurrent(p)
  \/ PatchSelectMaxReorder(p)
  \/ PatchShift(p)
  \/ PatchUpdate(p)
  \/ CreateShift(p)
  \/ CreateInsert(p)
  \/ DeleteSelect(p)
  \/ DeleteRow(p)
  \/ DeleteShift(p)
  \/ Catch(p)
  \/ Release(p)

NextRead ==
  \/ ReadPatch
  \/ ReadCreate
  \/ ReadDelete
  \/ ReadList
  \/ HandleRead("p1")
  \/ ListSelect("p2")
  \/ Release("p2")
  \/ \E c \in Conns : IdleTimeout(c)

\* The seed with every task incomplete.
InitRead == Init /\ tasks = SeedTable({})

SpecRead == InitRead /\ [][NextRead]_vars

\* PATCHes of one user in slot p1, one after the other on the pooled
\* client: reorders, and PATCHes that carry a category or an is_completed
\* and no order_index; slot p2 deletes categories meanwhile; PlainRequests
\* requests in all.
PlainRequests == 3

PlainBodies ==
  ReadBodies
    \cup { [NoFields EXCEPT !.has_category_id = TRUE, !.category_id = g] :
             g \in {NULL, "cat_002"} }
    \cup { [NoFields EXCEPT !.has_is_completed = TRUE, !.is_completed = b] :
             b \in BOOLEAN }

PlainPatch ==
  \E id \in ConcTasks, f \in PlainBodies :
     started < PlainRequests /\ StartPatch("p1", ConcUser, id, f)

PlainDeleteCategory ==
  \E cat \in {"cat_001", "cat_002"} :
     started < PlainRequests /\ StartDeleteCategory("p2", ConcUser, cat)

HandlePlain(p) ==
  \/ PatchSelectCurrent(p)
  \/ PatchCategoryCheck(p)
  \/ PatchSelectMaxUncomplete(p)
  \/ PatchSelectMaxReorder(p)
  \/ PatchShift(p)
  \/ PatchUpdate(p)
  \/ DeleteCategoryRow(p)
  \/ Catch(p)
  \/ Release(p)

NextPlain ==
  \/ PlainPatch
  \/ PlainDeleteCategory
  \/ \E p \in Procs : HandlePlain(p)
  \/ \E c \in Conns : IdleTimeout(c)

SpecPlain == InitFields /\ [][NextPlain]_vars

\* ------------------------------------------------ dashboard: handle_drag_end
\* The list the dashboard shows: the user's incomplete tasks by order_index.
display_tasks(V, u) ==
  LET A == ActiveTasks(V, u)
      N == Cardinality(A)
  IN CHOOSE s \in [1..N -> A] :
       \A i, j \in 1..N : i < j => V[s[i]].order_index < V[s[j]].order_index

\* splice(source, 1) and splice(destination, 0, removed), positions from 1.
Spliced(list, source, destination) ==
  LET rest == [i \in 1..(Len(list) - 1) |->
                 IF i < source THEN list[i] ELSE list[i + 1]]
  IN [i \in 1..Len(list) |->
        IF i < destination THEN rest[i]
        ELSE IF i = destination THEN list[source]
        ELSE rest[i - 1]]

\* One entry per task whose order_index is not its place in the new list,
\* in list order.
PatchesFor(V, list) ==
  SelectSeq([i \in 1..Len(list) |-> [id |-> list[i], order_index |-> i - 1]],
            LAMBDA e : V[e.id].order_index # e.order_index)

\* A drop at another place of the list, the list being the server's.
DragEnd ==
  \E source, destination \in 1..Cardinality(ActiveTasks(tasks, ConcUser)) :
    LET list == Spliced(display_tasks(tasks, ConcUser), source, destination) IN
    /\ started = 0
    /\ dashboard.newDisplayTasks = <<>>
    /\ source # destination
    /\ dashboard' = [dashboard EXCEPT
                       !.newDisplayTasks = list,
                       !.updatedTasksForBackend = PatchesFor(tasks, list)]
    /\ UNCHANGED <<categories, tasks, sess, idle, req, started>>

\* The loop sends the next PATCH once the one before it has settled.
DragPatch ==
  LET queue == dashboard.updatedTasksForBackend IN
  /\ started < Len(queue)
  /\ dashboard.settled = started
  /\ StartPatch("p1", ConcUser, queue[started + 1].id,
                [NoFields EXCEPT !.has_order_index = TRUE,
                                 !.order_index = queue[started + 1].order_index])

\* await mutateAsync: the answer to the PATCH under way has come.
DragSettle ==
  /\ req["p1"].pc = "done"
  /\ dashboard.settled < started
  /\ dashboard' = [dashboard EXCEPT
                     !.settled = started,
                     !.succeeded = @ /\ req["p1"].status = 200]
  /\ UNCHANGED <<categories, tasks, sess, idle, req, started>>

HandleDrag(p) ==
  \/ PatchSelectCurrent(p)
  \/ PatchSelectMaxReorder(p)
  \/ PatchShift(p)
  \/ PatchUpdate(p)
  \/ Release(p)

NextDrag ==
  \/ DragEnd
  \/ DragPatch
  \/ DragSettle
  \/ HandleDrag("p1")
  \/ \E c \in Conns : IdleTimeout(c)

SpecDrag == Init /\ [][NextDrag]_vars

\* -------------------------------------------- dashboard: the task cache
\* Object.values of a cache: its task objects.
ObjectValues(cache) == {cache[t] : t \in {u \in TaskIds : cache[u] # Absent}}

\* The store's three cache actions.  set_tasks builds a new map from a
\* list, each task under its own id; the other two change one key.
set_tasks(list) ==
  [t \in TaskIds |->
     IF \E e \in list : e.id = t THEN CHOOSE e \in list : e.id = t ELSE Absent]
add_or_update_task(cache, task) == [cache EXCEPT ![task.id] = task]
remove_task(cache, task_id) == [cache EXCEPT ![task_id] = Absent]

\* The object onMutate of an update writes, and the one the server answers.
Optimistic(m, id) == [id |-> id, from |-> "optimistic", by |-> m]
updatedTask(m, id) == [id |-> id, from |-> "server", by |-> m]

\* What is under the mutation's id once its optimistic change is made.
OptimisticEntry(m) ==
  IF dashboard.mutation[m].kind = "update"
  THEN Optimistic(m, dashboard.mutation[m].id)
  ELSE Absent

\* The dashboard is open with the list it fetched; no request is under way.
CachedTasks == [t \in TaskIds |-> IF t \in ConcTasks THEN Fetched(t) ELSE Absent]
InitCache ==
  /\ dashboard = [NoDashboard EXCEPT !.tasks_by_id = CachedTasks,
                                     !.fetched_tasks = CachedTasks,
                                     !.served = CachedTasks]
  /\ categories = SeedCategories
  /\ tasks = SeedTable({})
  /\ sess = [c \in Conns |-> FreshSession]
  /\ idle = <<>>
  /\ req = [p \in Procs |-> IdleReq]
  /\ started = 0

\* updateTaskMutation.onMutate: snapshot, then the optimistic object.
UpdateOnMutate(m) ==
  \E id \in ConcTasks :
    LET previousTasksById == dashboard.tasks_by_id IN
    /\ dashboard.mutation[m].state = "idle"
    /\ dashboard' = [dashboard EXCEPT
         !.tasks_by_id = add_or_update_task(@, Optimistic(m, id)),
         !.mutation[m] = [state |-> "pending", kind |-> "update", id |-> id,
                          previousTasksById |-> previousTasksById]]
    /\ UNCHANGED <<categories, tasks, sess, idle, req, started>>

\* updateTaskMutation.onSuccess: the server has the task and answers the
\* updated row.
UpdateOnSuccess(m) ==
  LET id == dashboard.mutation[m].id IN
  /\ dashboard.mutation[m].state = "pending"
  /\ dashboard.mutation[m].kind = "update"
  /\ dashboard.served[id] # Absent
  /\ dashboard' = [dashboard EXCEPT
       !.tasks_by_id = add_or_update_task(@, updatedTask(m, id)),
       !.served[id] = updatedTask(m, id),
       !.mutation[m].state = "success"]
  /\ UNCHANGED <<categories, tasks, sess, idle, req, started>>

\* updateTaskMutation.onError: the PATCH was refused or never got through.
UpdateOnError(m) ==
  /\ dashboard.mutation[m].state = "pending"
  /\ dashboard.mutation[m].kind = "update"
  /\ dashboard' = [dashboard EXCEPT
       !.tasks_by_id =
          set_tasks(ObjectValues(dashboard.mutation[m].previousTasksById)),
       !.mutation[m].state = "error"]
  /\ UNCHANGED <<categories, tasks, sess, idle, req, started>>

\* deleteTaskMutation.onMutate: snapshot, then remove_task.
DeleteOnMutate(m) ==
  \E task_id \in ConcTasks :
    LET previousTasksById == dashboard.tasks_by_id IN
    /\ dashboard.mutation[m].state = "idle"
    /\ dashboard' = [dashboard EXCEPT
         !.tasks_by_id = remove_task(@, task_id),
         !.mutation[m] = [state |-> "pending", kind |-> "delete",
                          id |-> task_id,
                          previousTasksById |-> previousTasksById]]
    /\ UNCHANGED <<categories, tasks, sess, idle, req, started>>

\* deleteTaskMutation.onSuccess: the server had the task and has deleted
\* it; the cache is not written.
DeleteOnSuccess(m) ==
  LET task_id == dashboard.mutation[m].id IN
  /\ dashboard.mutation[m].state = "pending"
  /\ dashboard.mutation[m].kind = "delete"
  /\ dashboard.served[task_id] # Absent
  /\ dashboard' = [dashboard EXCEPT
       !.served[task_id] = Absent,
       !.mutation[m].state = "success"]
  /\ UNCHANGED <<categories, tasks, sess, idle, req, started>>

\* deleteTaskMutation.onError.
DeleteOnError(m) ==
  /\ dashboard.mutation[m].state = "pending"
  /\ dashboard.mutation[m].kind = "delete"
  /\ dashboard' = [dashboard EXCEPT
       !.tasks_by_id =
          set_tasks(ObjectValues(dashboard.mutation[m].previousTasksById)),
       !.mutation[m].state = "error"]
  /\ UNCHANGED <<categories, tasks, sess, idle, req, started>>

\* fetchTasks, run again after invalidateQueries: the server's list goes
\* into the query's data and, by set_tasks(data), into the cache.
fetchTasks ==
  /\ dashboard.fetched_tasks # dashboard.served
  /\ dashboard' = [dashboard EXCEPT
       !.fetched_tasks = dashboard.served,
       !.tasks_by_id = set_tasks(ObjectValues(dashboard.served))]
  /\ UNCHANGED <<categories, tasks, sess, idle, req, started>>

\* The effect that depends on tasks_by_id and fetched_tasks: it puts the
\* query's data into the cache again.
SyncEffect ==
  /\ dashboard.tasks_by_id # dashboard.fetched_tasks
  /\ \/ ObjectValues(dashboard.fetched_tasks) # {}
     \/ ObjectValues(dashboard.tasks_by_id) # {}
  /\ dashboard' = [dashboard EXCEPT
       !.tasks_by_id = set_tasks(ObjectValues(dashboard.fetched_tasks))]
  /\ UNCHANGED <<categories, tasks, sess, idle, req, started>>

MutationStep(m) ==
  \/ UpdateOnMutate(m)
  \/ UpdateOnSuccess(m)
  \/ UpdateOnError(m)
  \/ DeleteOnMutate(m)
  \/ DeleteOnSuccess(m)
  \/ DeleteOnError(m)

NextCache ==
  \/ \E m \in Mutations : MutationStep(m)
  \/ fetchTasks
  \/ SyncEffect

SpecCache == InitCache /\ [][NextCache]_vars

\* ---------------------------------------------------------------- claims
\* A request that has answered and not yet released its client: pre is the
\* table its session saw when it arrived, Post the table that session sees
\* now, which is what the next request on the same pooled client reads.
Answered(p) == req[p].pc = "done"
Post(p) == View(req[p].client)
Succeeded(p) == Answered(p) /\ req[p].status \in {200, 201, 204}

\* The highest order_index among the user's incomplete tasks, -1 if none.
maxActiveIndex(V, u) ==
  LET m == SelectMax(V, u) IN IF m.null THEN -1 ELSE m.v

Dense(V, u) ==
  LET A == ActiveTasks(V, u) IN
  /\ {V[t].order_index : t \in A} = 0..(Cardinality(A) - 1)
  /\ \A s, t \in A : s # t => V[s].order_index # V[t].order_index

\* The PATCH in slot p addresses a row of its caller.
OwnRow(p) ==
  /\ req[p].op = "patch"
  /\ req[p].pre[req[p].task_id].exists
  /\ req[p].pre[req[p].task_id].user_id = req[p].userId

\* ... an incomplete one, and the body does not complete it.
StaysIncomplete(p) ==
  /\ OwnRow(p)
  /\ ~req[p].pre[req[p].task_id].is_completed
  /\ ~(req[p].updateFields.has_is_completed /\ req[p].updateFields.is_completed)

\* ... and the body carries an order_index other than the row's.
IsReorder(p) ==
  /\ StaysIncomplete(p)
  /\ req[p].updateFields.has_order_index
  /\ req[p].updateFields.order_index # req[p].pre[req[p].task_id].order_index

IsComplete(p) ==
  /\ OwnRow(p)
  /\ ~req[p].pre[req[p].task_id].is_completed
  /\ req[p].updateFields.has_is_completed /\ req[p].updateFields.is_completed

IsUncomplete(p) ==
  /\ OwnRow(p)
  /\ req[p].pre[req[p].task_id].is_completed
  /\ req[p].updateFields.has_is_completed /\ ~req[p].updateFields.is_completed

Others(p) == TaskIds \ {req[p].task_id}

\* C1: a successful create, complete, uncomplete, reorder or delete that
\* finds the caller's incomplete tasks at exactly 0..N-1 leaves them at
\* exactly 0..N'-1 for the new count, without duplicates and without gaps.
C1_Density ==
  \A p \in Procs :
    (Succeeded(p) /\ Dense(req[p].pre, req[p].userId)) =>
      Dense(Post(p), req[p].userId)

\* C2: when a PATCH completes the incomplete task at index i, every other
\* incomplete task of the user above i ends one lower and every one below i
\* keeps its index.
C2_CompleteCompacts ==
  \A p \in Procs :
    (Succeeded(p) /\ IsComplete(p)) =>
      LET pre == req[p].pre
          i == pre[req[p].task_id].order_index
      IN \A t \in ActiveTasks(pre, req[p].userId) \ {req[p].task_id} :
           /\ pre[t].order_index > i =>
                Post(p)[t].order_index = pre[t].order_index - 1
           /\ pre[t].order_index < i =>
                Post(p)[t].order_index = pre[t].order_index

\* C3: a PATCH that uncompletes a task without naming an order_index puts
\* it at m+1, m the highest active index before the request (-1 if none),
\* for every m including 0, and changes no other task's order_index.
C3_UncompleteAppends ==
  \A p \in Procs :
    (Succeeded(p) /\ IsUncomplete(p) /\ ~req[p].updateFields.has_order_index) =>
      /\ Post(p)[req[p].task_id].order_index =
           maxActiveIndex(req[p].pre, req[p].userId) + 1
      /\ \A t \in Others(p) :
           Post(p)[t].order_index = req[p].pre[t].order_index

\* C4: a PATCH that uncompletes a task and also names an order_index (one
\* the schema admits) succeeds and leaves what the same request without
\* order_index leaves: the task at the previous highest active index + 1,
\* nothing else shifted.
C4_UncompleteIgnoresIndex ==
  \A p \in Procs :
    (/\ Answered(p) /\ IsUncomplete(p)
     /\ req[p].updateFields.has_order_index
     /\ req[p].updateFields.order_index >= 0) =>
      /\ req[p].status = 200
      /\ Post(p)[req[p].task_id].order_index =
           maxActiveIndex(req[p].pre, req[p].userId) + 1
      /\ ~Post(p)[req[p].task_id].is_completed
      /\ \A t \in Others(p) :
           Post(p)[t].order_index = req[p].pre[t].order_index

\* C5: a client goes back to the pool with no transaction left open on it.
C5_ReleasedWithoutTransaction ==
  \A c \in IdleSet : sess[c].tx = "none"

\* C6: once two concurrent requests of one user have both finished, the
\* user's incomplete tasks hold exactly 0..N-1.  Stated for the pairs that
\* toggle no completion flag: a complete or an uncomplete leaves a gap or a
\* duplicate even when it runs alone (C2, C3).
C6_ConcurrentDensity ==
  (/\ \A p \in Procs : Answered(p)
   /\ \A p \in Procs : ~req[p].updateFields.has_is_completed) =>
     Dense(tasks, ConcUser)

\* C7: a reorder of an incomplete task is accepted when
\* 0 <= newIndex <= maxActiveIndex + 1 and rejected otherwise.
C7_ReorderBounds ==
  \A p \in Procs :
    (Answered(p) /\ IsReorder(p)) =>
      LET newIndex == req[p].updateFields.order_index
          inBounds == /\ 0 <= newIndex
                      /\ newIndex <= maxActiveIndex(req[p].pre, req[p].userId) + 1
      IN /\ inBounds => req[p].status = 200
         /\ ~inBounds => req[p].status = 400

\* C8: an accepted reorder of an incomplete task from oldIndex to newIndex
\* adds 1 to exactly the user's other incomplete tasks in
\* newIndex <= j < oldIndex (moving up the list), takes 1 from exactly those
\* in oldIndex < j <= newIndex (moving down), leaves the moved task at
\* newIndex and every other task's order_index as it was.
C8_ReorderShift ==
  \A p \in Procs :
    (Succeeded(p) /\ IsReorder(p)) =>
      LET pre == req[p].pre
          oldIndex == pre[req[p].task_id].order_index
          newIndex == req[p].updateFields.order_index
          mine == ActiveTasks(pre, req[p].userId) \ {req[p].task_id}
          up == {t \in mine : newIndex <= pre[t].order_index
                              /\ pre[t].order_index < oldIndex}
          down == {t \in mine : oldIndex < pre[t].order_index
                                /\ pre[t].order_index <= newIndex}
      IN /\ Post(p)[req[p].task_id].order_index = newIndex
         /\ \A t \in Others(p) :
              Post(p)[t].order_index =
                IF t \in up THEN pre[t].order_index + 1
                ELSE IF t \in down THEN pre[t].order_index - 1
                ELSE pre[t].order_index

\* A reorder to a lower index has answered 200 and a task lay in between.
C8_Witness ==
  \E p \in Procs :
    /\ Succeeded(p) /\ IsReorder(p)
    /\ req[p].updateFields.order_index < req[p].pre[req[p].task_id].order_index
    /\ \E t \in ActiveTasks(req[p].pre, req[p].userId) \ {req[p].task_id} :
         /\ req[p].updateFields.order_index <= req[p].pre[t].order_index
         /\ req[p].pre[t].order_index < req[p].pre[req[p].task_id].order_index

\* C9: a PATCH on a task that stays incomplete whose order_index is negative
\* or above maxActiveIndex + 1 is rejected and leaves every field of every
\* task row as it was.
C9_RejectedReorderChangesNothing ==
  \A p \in Procs :
    (/\ Answered(p) /\ req[p].op = "patch"
     /\ req[p].updateFields.has_order_index
     /\ \/ req[p].updateFields.order_index < 0 /\ StaysIncomplete(p)
        \/ IsReorder(p) /\ req[p].updateFields.order_index >
                             maxActiveIndex(req[p].pre, req[p].userId) + 1) =>
      /\ req[p].status = 400
      /\ Post(p) = req[p].pre

\* C10: a create stores the new task incomplete at order_index 0 and adds 1
\* to the order_index of every task of the user that was incomplete; the
\* user's completed tasks keep theirs.
C10_CreateAtTop ==
  \A p \in Procs :
    (Answered(p) /\ req[p].op = "create"
       /\ createTaskInputSchema(req[p].updateFields)) =>
      /\ req[p].status = 201
      /\ Post(p)[req[p].task_id].exists
      /\ ~Post(p)[req[p].task_id].is_completed
      /\ Post(p)[req[p].task_id].order_index = 0
      /\ \A t \in UserTasks(req[p].pre, req[p].userId) :
           Post(p)[t].order_index =
             IF req[p].pre[t].is_completed THEN req[p].pre[t].order_index
             ELSE req[p].pre[t].order_index + 1

\* C11: a successful delete of an incomplete task at index i removes the
\* row and takes 1 from the order_index of exactly the user's incomplete
\* tasks above i; a successful delete of a completed task removes the row
\* and changes no order_index.
C11_DeleteCompacts ==
  \A p \in Procs :
    (Succeeded(p) /\ req[p].op = "delete") =>
      LET pre == req[p].pre
          id == req[p].task_id
          i == pre[id].order_index
          above == IF pre[id].is_completed THEN {}
                   ELSE {t \in ActiveTasks(pre, req[p].userId) \ {id} :
                           pre[t].order_index > i}
      IN /\ ~Post(p)[id].exists
         /\ \A t \in Others(p) :
              /\ Post(p)[t].exists = pre[t].exists
              /\ Post(p)[t].order_index =
                   IF t \in above THEN pre[t].order_index - 1
                   ELSE pre[t].order_index

\* A delete of an incomplete task answered 204 with an incomplete task and
\* a completed task of the user above it.
C11_Witness ==
  \E p \in Procs :
    /\ Succeeded(p) /\ req[p].op = "delete"
    /\ ~req[p].pre[req[p].task_id].is_completed
    /\ \E t, q \in UserTasks(req[p].pre, req[p].userId) :
         /\ ~req[p].pre[t].is_completed /\ req[p].pre[q].is_completed
         /\ req[p].pre[t].order_index > req[p].pre[req[p].task_id].order_index
         /\ req[p].pre[q].order_index > req[p].pre[req[p].task_id].order_index

\* C13: a request leaves the order_index of every task that was completed
\* when it arrived as it was, unless the request is the PATCH that
\* uncompletes that task (or the delete that removes it).
C13_CompletedIndexFrozen ==
  \A p \in Procs :
    Answered(p) =>
      \A t \in TaskIds :
        (/\ req[p].pre[t].exists /\ req[p].pre[t].is_completed
         /\ Post(p)[t].exists
         /\ ~(req[p].task_id = t /\ IsUncomplete(p))) =>
          Post(p)[t].order_index = req[p].pre[t].order_index

\* The PATCH in slot p addresses a row of its caller that is completed once
\* the request is through: the body says so, or the row is and the body
\* does not say otherwise.
CompletedAfter(p) ==
  /\ OwnRow(p)
  /\ \/ req[p].updateFields.has_is_completed /\ req[p].updateFields.is_completed
     \/ ~req[p].updateFields.has_is_completed
          /\ req[p].pre[req[p].task_id].is_completed

WithoutOrderIndex(f) == [f EXCEPT !.has_order_index = FALSE, !.order_index = 0]

\* C14: a PATCH on a task that is completed after the request, with an
\* order_index the schema admits or with none, is answered 200, sends the
\* UPDATE the same request without order_index sends, and leaves every
\* order_index of the user's tasks as it found it: with and without the
\* field the stored order_index values are the same.
C14_IndexIgnoredWhenCompleted ==
  \A p \in Procs :
    (/\ Answered(p) /\ CompletedAfter(p)
     /\ updateTaskInputSchema(req[p].updateFields)) =>
      /\ req[p].status = 200
      /\ queryParts(req[p]) =
           queryParts([req[p] EXCEPT !.updateFields = WithoutOrderIndex(@)])
      /\ \A t \in UserTasks(req[p].pre, req[p].userId) :
           Post(p)[t].order_index = req[p].pre[t].order_index

\* A PATCH that completes an incomplete task and names another index, with
\* another incomplete task in between, has been answered.
C14_Witness ==
  \E p \in Procs :
    /\ Answered(p) /\ IsComplete(p) /\ req[p].status = 200
    /\ req[p].updateFields.has_order_index
    /\ req[p].updateFields.order_index > req[p].pre[req[p].task_id].order_index
    /\ \E t \in ActiveTasks(req[p].pre, req[p].userId) \ {req[p].task_id} :
         /\ req[p].pre[t].order_index > req[p].pre[req[p].task_id].order_index
         /\ req[p].pre[t].order_index <= req[p].updateFields.order_index

\* C15: a create, reorder or delete one of whose statements fails after
\* its range shift ran (answered 500) leaves every task of the user at the
\* order_index it had before the request.
C15_FailureRestoresIndices ==
  \A p \in Procs :
    (Answered(p) /\ req[p].status = 500) =>
      \A t \in UserTasks(req[p].pre, req[p].userId) :
        /\ Post(p)[t].exists
        /\ Post(p)[t].order_index = req[p].pre[t].order_index

\* What a create leaves of the order_index column, whatever order_index
\* the client sent: 0 for the new row, one more for the caller's rows that
\* were incomplete, the rest as before.
CreatedIndices(pre, u, id) ==
  [t \in TaskIds |->
     IF t = id THEN 0
     ELSE IF t \in ActiveTasks(pre, u) THEN pre[t].order_index + 1
     ELSE pre[t].order_index]

\* C17: the order_index values a create leaves do not depend on the
\* order_index the client sent: the new task is at 0 and the tasks that were
\* incomplete are one higher.
C17_CreateIgnoresClientIndex ==
  \A p \in Procs :
    (/\ Answered(p) /\ req[p].op = "create"
     /\ createTaskInputSchema(req[p].updateFields)) =>
      /\ Post(p)[req[p].task_id].exists
      /\ [t \in TaskIds |-> Post(p)[t].order_index] =
           CreatedIndices(req[p].pre, req[p].userId, req[p].task_id)

\* The request in slot p names a task id that is no row of its caller.
NotOwnRow(p) ==
  /\ req[p].op \in {"patch", "delete"}
  /\ ~SelectTask(req[p].pre, req[p].task_id, req[p].userId).exists

\* C18: a PATCH (with a body the schema admits) or a DELETE on a task id
\* that does not exist or belongs to another user is answered 404 and
\* leaves every task row of every user as it was.
C18_NotFoundChangesNothing ==
  \A p \in Procs :
    (/\ Answered(p) /\ NotOwnRow(p)
     /\ updateTaskInputSchema(req[p].updateFields)) =>
      /\ req[p].status = 404
      /\ Post(p) = req[p].pre

\* Every table a statement can read: the committed one and what each
\* connection sees.
Readable == {tasks} \cup {View(c) : c \in Conns}

OwnsCategory(u, cat) ==
  \E c \in CatIds : c = cat /\ categories[c].exists /\ categories[c].user_id = u

\* The request in slot p is a create or a PATCH whose category_id is not
\* null and is no category of the caller.
ForeignCategory(p) ==
  /\ req[p].op \in {"create", "patch"}
  /\ req[p].updateFields.has_category_id
  /\ req[p].updateFields.category_id # NULL
  /\ ~OwnsCategory(req[p].userId, req[p].updateFields.category_id)

C20_CategoryOwned ==
  \A V \in Readable : \A t \in TaskIds :
    (V[t].exists /\ V[t].category_id # NULL) =>
      OwnsCategory(V[t].user_id, V[t].category_id)

\* A PATCH passed the ownership check, the category was deleted before its
\* UPDATE ran, and the PATCH has been answered.
C20_Witness ==
  \E p \in Procs :
    /\ Answered(p) /\ OwnRow(p)
    /\ req[p].updateFields.has_category_id
    /\ req[p].updateFields.category_id \in CatIds
    /\ req[p].status = 500
    /\ ~categories[req[p].updateFields.category_id].exists

\* C16: a listing of a user's incomplete tasks that is answered returns
\* exactly those tasks, in ascending order of order_index.
C16_ListedByOrderIndex ==
  \A p \in Procs :
    (Answered(p) /\ req[p].op = "list" /\ req[p].status = 200) =>
      LET rows == req[p].rows
          V == req[p].pre
      IN /\ {rows[i] : i \in 1..Len(rows)} = ActiveTasks(V, req[p].userId)
         /\ \A i, j \in 1..Len(rows) :
              i < j => V[rows[i]].order_index < V[rows[j]].order_index

\* C21: the statement that deletes a category (answered 204) leaves the
\* category gone, sets category_id to null on every task that named it,
\* removes no task and changes no other field of any task.
C21_CategoryDeleteNullsOnly ==
  [][\A p \in Procs :
       (/\ req[p].pc = "deleteCategory"
        /\ req'[p].pc = "done" /\ req'[p].status = 204) =>
         /\ ~categories'[req[p].category_id].exists
         /\ \A t \in TaskIds :
              /\ tasks'[t].exists = tasks[t].exists
              /\ tasks'[t] =
                   IF tasks[t].exists /\ tasks[t].category_id = req[p].category_id
                     THEN [tasks[t] EXCEPT !.category_id = NULL]
                     ELSE tasks[t]]_vars

\* A category delete has answered 204 and a task that named the category
\* when the request arrived is there with no category.
C21_Witness ==
  \E p \in Procs :
    /\ Answered(p) /\ req[p].op = "deleteCategory" /\ req[p].status = 204
    /\ \E t \in TaskIds :
         /\ req[p].pre[t].exists
         /\ req[p].pre[t].category_id = req[p].category_id
         /\ tasks[t].exists /\ tasks[t].category_id = NULL
         /\ tasks[t].order_index = req[p].pre[t].order_index

\* The request in slot q is a create, a delete, or a PATCH that reorders.
Reshuffles(q) ==
  \/ req[q].op \in {"create", "delete"}
  \/ IsReorder(q)

\* Going from table B to table L, the row the request in slot q is about
\* shows the request's own insert, delete or new index.
PrimaryVisible(q, B, L) ==
  LET id == req[q].task_id IN
  IF req[q].op = "create" THEN L[id].exists /\ ~B[id].exists
  ELSE IF req[q].op = "delete" THEN B[id].exists /\ ~L[id].exists
  ELSE L[id].order_index # B[id].order_index

\* ... another task of the caller shows a changed order_index.
ShiftVisible(q, B, L) ==
  \E t \in UserTasks(B, req[q].userId) \ {req[q].task_id} :
     L[t].exists /\ L[t].order_index # B[t].order_index

\* The request in slot q, run on table B, has a task to shift.
ShiftDue(q, B) ==
  LET id == req[q].task_id
      mine == ActiveTasks(B, req[q].userId) \ {id}
      newIndex == req[q].updateFields.order_index
  IN
  IF req[q].op = "create" THEN mine # {}
  ELSE IF req[q].op = "delete"
    THEN /\ B[id].exists /\ ~B[id].is_completed
         /\ \E t \in mine : B[t].order_index > B[id].order_index
  ELSE \E t \in mine :
         \/ newIndex <= B[t].order_index /\ B[t].order_index < B[id].order_index
         \/ B[id].order_index < B[t].order_index /\ B[t].order_index <= newIndex

HalfApplied(q, B, L) ==
  \/ ShiftVisible(q, B, L) /\ ~PrimaryVisible(q, B, L)
  \/ PrimaryVisible(q, B, L) /\ ShiftDue(q, B) /\ ~ShiftVisible(q, B, L)

\* C22: the SELECT of a listing reads no half-applied create, reorder or
\* delete of the same user: against the table the listing and the other
\* request both found when they arrived, what the SELECT reads shows the
\* other request's range shift and its insert, update or delete together or
\* neither of them.
C22_NoHalfAppliedRead ==
  [][\A p, q \in Procs :
       (/\ req[p].op = "list" /\ req[p].pc = "listSelect"
        /\ req'[p].pc = "done"
        /\ q # p /\ req[q].pc # "idle" /\ req[q].userId = req[p].userId
        /\ Reshuffles(q)
        /\ req[q].pre = req[p].pre) =>
         ~HalfApplied(q, req[p].pre, View(req[p].client))]_vars

\* A listing has answered while a delete of the same user, which arrived
\* on the same table and has a task to shift, had sent its DELETE and not
\* yet its compaction.
C22_Witness ==
  \E p, q \in Procs :
    /\ Answered(p) /\ req[p].op = "list" /\ req[p].status = 200
    /\ req[q].op = "delete" /\ req[q].pc = "deleteShift"
    /\ req[q].pre = req[p].pre
    /\ ShiftDue(q, req[p].pre)

\* The PATCH in slot p, with a body the schema admits, addresses a row of
\* its caller, names no is_completed other than the row's and no
\* order_index other than the row's.
WritesPlainFields(p) ==
  LET f == req[p].updateFields
      row == req[p].pre[req[p].task_id]
  IN /\ OwnRow(p)
     /\ updateTaskInputSchema(f)
     /\ f.has_is_completed => f.is_completed = row.is_completed
     /\ f.has_order_index => f.order_index = row.order_index

\* C23: a PATCH that changes no is_completed and names no order_index
\* other than the task's leaves every task's order_index, is_completed and
\* completed_at as they were.
C23_PlainPatchKeepsOrder ==
  \A p \in Procs :
    (Answered(p) /\ WritesPlainFields(p)) =>
      \A t \in TaskIds :
        /\ Post(p)[t].exists = req[p].pre[t].exists
        /\ Post(p)[t].order_index = req[p].pre[t].order_index
        /\ Post(p)[t].is_completed = req[p].pre[t].is_completed
        /\ Post(p)[t].completed_at = req[p].pre[t].completed_at

\* C24: a create, or a PATCH or delete of a task of the caller, with a body
\* the schema admits, leaves every field of every other user's tasks as it
\* was.
C24_OtherUsersUntouched ==
  \A p \in Procs :
    (/\ Answered(p) /\ req[p].op \in {"create", "patch", "delete"}
     /\ req[p].op # "create" =>
          SelectTask(req[p].pre, req[p].task_id, req[p].userId).exists
     /\ IF req[p].op = "create"
          THEN createTaskInputSchema(req[p].updateFields)
          ELSE updateTaskInputSchema(req[p].updateFields)) =>
      \A t \in TaskIds :
        (req[p].pre[t].exists /\ req[p].pre[t].user_id # req[p].userId) =>
          Post(p)[t] = req[p].pre[t]

\* C25: the value the update handler takes for the highest active index is
\* the highest order_index among the caller's incomplete tasks as its SELECT
\* reads them, and -1 when there is none: an uncomplete appends at that
\* value plus one, and a reorder is turned down exactly when its index lies
\* above that value plus one.
C25_MaxActiveIndexComputed ==
  [][\A p \in Procs :
       LET m == maxActiveIndex(View(req[p].client), req[p].userId) IN
       /\ (req[p].pc = "selectMaxUncomplete" /\ req'[p].pc # req[p].pc) =>
            req'[p].newOrderIndexForIncomplete = m + 1
       /\ (req[p].pc = "selectMaxReorder" /\ req'[p].pc # req[p].pc) =>
            (req'[p].status = 400 <=> req[p].updateFields.order_index > m + 1)
    ]_vars

\* The tasks of S stand in table post in the order they stand in in pre.
KeepsOrder(S, pre, post) ==
  \A s, t \in S :
    pre[s].order_index < pre[t].order_index =>
      post[s].order_index < post[t].order_index

\* C26: a create, or a PATCH or delete of a task of the caller, that finds
\* the caller's incomplete tasks at 0..N-1 leaves the tasks that are
\* incomplete before and after it in the order they had; for a reorder
\* this holds of the tasks other than the moved one.
C26_RelativeOrderKept ==
  \A p \in Procs :
    (/\ Answered(p) /\ req[p].op \in {"create", "patch", "delete"}
     /\ req[p].op # "create" =>
          SelectTask(req[p].pre, req[p].task_id, req[p].userId).exists
     /\ IF req[p].op = "create"
          THEN createTaskInputSchema(req[p].updateFields)
          ELSE updateTaskInputSchema(req[p].updateFields)
     /\ Dense(req[p].pre, req[p].userId)) =>
      KeepsOrder((ActiveTasks(req[p].pre, req[p].userId)
                    \cap ActiveTasks(Post(p), req[p].userId))
                   \ (IF IsReorder(p) THEN {req[p].task_id} ELSE {}),
                 req[p].pre, Post(p))

\* C27: once the drag's last PATCH has been answered and every PATCH of the
\* loop was answered 200, each task of the dropped list has its place in
\* the list as order_index on the server.
C27_DragLoopLeavesDroppedOrder ==
  LET list == dashboard.newDisplayTasks IN
  (/\ list # <<>>
   /\ Answered("p1")
   /\ dashboard.settled = Len(dashboard.updatedTasksForBackend)
   /\ dashboard.succeeded) =>
     \A i \in 1..Len(list) : Post("p1")[list[i]].order_index = i - 1

\* The PATCH in slot p addresses a row of its caller and carries the
\* is_completed the row has, and neither order_index nor category_id.
SameCompletion(p) ==
  /\ OwnRow(p)
  /\ req[p].updateFields.has_is_completed
  /\ req[p].updateFields.is_completed = req[p].pre[req[p].task_id].is_completed
  /\ ~req[p].updateFields.has_order_index
  /\ ~req[p].updateFields.has_category_id

\* C28: a PATCH that sets is_completed to the value the task has leaves
\* the task's is_completed, completed_at and order_index as they were, and
\* changes no other task's order_index.
C28_SameCompletionKeepsOrder ==
  \A p \in Procs :
    (Answered(p) /\ SameCompletion(p)) =>
      /\ Post(p)[req[p].task_id].is_completed =
           req[p].pre[req[p].task_id].is_completed
      /\ Post(p)[req[p].task_id].completed_at =
           req[p].pre[req[p].task_id].completed_at
      /\ \A t \in TaskIds :
           /\ Post(p)[t].exists = req[p].pre[t].exists
           /\ Post(p)[t].order_index = req[p].pre[t].order_index

\* A PATCH with is_completed false on an incomplete task that is neither
\* the first nor the last of the caller's list has been answered 200.
C28_Witness ==
  \E p \in Procs :
    /\ Answered(p) /\ SameCompletion(p) /\ req[p].status = 200
    /\ ~req[p].updateFields.is_completed
    /\ req[p].pre[req[p].task_id].order_index > 0
    /\ \E t \in ActiveTasks(req[p].pre, req[p].userId) :
         req[p].pre[t].order_index > req[p].pre[req[p].task_id].order_index

\* C29: in every state, in the committed table and in what every
\* connection reads, every task's order_index is 0 or more.
C29_IndicesNonNegative ==
  \A V \in Readable : \A t \in TaskIds :
    V[t].exists => V[t].order_index >= 0

\* A delete of the incomplete task at index 0 has answered 204 and a task
\* of the caller has come down from 1 to 0.
C29_Witness ==
  \E p \in Procs :
    /\ req[p].op = "delete"
    /\ Succeeded(p)
    /\ req[p].pre[req[p].task_id].exists
    /\ req[p].pre[req[p].task_id].order_index = 0
    /\ ~req[p].pre[req[p].task_id].is_completed
    /\ \E t \in ActiveTasks(req[p].pre, req[p].userId) \ {req[p].task_id} :
         req[p].pre[t].order_index = 1 /\ Post(p)[t].order_index = 0

\* What a mutation that has succeeded left under its task's id: the row the
\* server answered an update with, nothing for a delete.
SettledEntry(o) ==
  IF dashboard.mutation[o].kind = "update"
  THEN updatedTask(o, dashboard.mutation[o].id)
  ELSE Absent

\* C30: when an update or delete mutation fails, its onError step takes its
\* own optimistic change back and keeps, under every other task's id, what
\* a mutation that has succeeded left there.
C30_FailureUndoesOwnChangeOnly ==
  [][\A m \in Mutations :
       (/\ dashboard.mutation[m].state = "pending"
        /\ dashboard'.mutation[m].state = "error") =>
         LET id == dashboard.mutation[m].id IN
         /\ dashboard.tasks_by_id[id] = OptimisticEntry(m) =>
              dashboard'.tasks_by_id[id] =
                dashboard.mutation[m].previousTasksById[id]
         /\ \A o \in Mutations :
              LET t == dashboard.mutation[o].id IN
              (/\ dashboard.mutation[o].state = "success"
               /\ t # id
               /\ dashboard.tasks_by_id[t] = SettledEntry(o)) =>
                dashboard'.tasks_by_id[t] = SettledEntry(o)]_vars

====
